---- MODULE Spec2Model ----
(***************************************************************************)
(* Model of the FMX beamline startup macros (startup/99-macros.py and      *)
(* startup/99-macros_99.py): the device sequencing macros                  *)
(* (detectorCoverClose, detectorCoverOpen, anneal, set_influence,          *)
(* trans_set, set_beamsize) acting on the beamline hardware, and the       *)
(* Bragg angle / energy conversions xf_bragg2e and xf_e2bragg.             *)
(*                                                                         *)
(* One interactive session runs one macro at a time.  A macro call starts  *)
(* from pc = "idle", runs through its polling positions and ends in        *)
(* pc = "done", where cur, log, out, ret and hw0 describe the finished     *)
(* call; Return goes back to the prompt.  The hardware moves on its own    *)
(* while a macro runs and while the session is at the prompt; "done" is    *)
(* the instant of the return.                                              *)
(***************************************************************************)
EXTENDS Integers, Sequences, FiniteSets, TLC

VARIABLES
    pc,         \* position of the session: "idle", a polling loop, "done"
    cur,        \* the macro call being executed: [op, args]
    rep,        \* TRUE when cur is the immediate repetition of the previous call
    log,        \* device accesses of the current call, in order
    out,        \* messages printed by the current call, in order
    ret,        \* return value of the current call
    hw0,        \* hardware state when the current call started
    ncalls,     \* macro calls made in this session
    cover,      \* detector cover: [status, cmd]
    annealer,   \* annealer: [air, pos]
    gov,        \* Governor state
    psBank,     \* power supply BANK_NO_32, per bimorph
    psStep,     \* power supply U_STEP_MON, per bimorph
    psDemand,   \* power supply U{n}_CURRENT_MON, per bimorph and electrode
    hdcm,       \* monochromator energy readback [eV]
    trans,      \* attenuator PVs: [energy, transmission, set_trans, done]
    lens,       \* transfocator lens positions
    fx          \* conversion under evaluation: [file, t, h, k, l, LN, E, back]

sess == <<pc, cur, rep, log, out, ret, hw0, ncalls>>
coverHW == <<cover>>
annealHW == <<annealer, gov>>
psHW == <<psBank, psStep, psDemand>>
optHW == <<hdcm, trans, lens>>
vars == <<pc, cur, rep, log, out, ret, hw0, ncalls, cover, annealer, gov,
          psBank, psStep, psDemand, hdcm, trans, lens, fx>>

\* Bound on the number of macro calls in one session.
MaxCalls == 3

----
\* The hardware as one value.
HW ==
    [cover |-> cover, annealer |-> annealer, gov |-> gov, psBank |-> psBank,
     psStep |-> psStep, psDemand |-> psDemand, trans |-> trans, lens |-> lens]

NoCall == [op |-> "none", args |-> <<>>]

Put(l, pv, v) == Append(l, <<"put", pv, v>>)

\* A status sample; a sample repeating the previous one is not recorded twice.
Get(l, pv, v) ==
    IF Len(l) > 0 /\ l[Len(l)] = <<"get", pv, v>> THEN l
    ELSE Append(l, <<"get", pv, v>>)

\* A macro is invoked at the prompt, or once more right after the same call.
Invoke(c) ==
    /\ ncalls < MaxCalls
    /\ \/ pc = "idle" /\ rep' = FALSE
       \/ /\ pc = "done" /\ ~rep
          /\ cur.op = c.op /\ cur.args = c.args
          /\ rep' = TRUE
    /\ cur' = c
    /\ hw0' = HW
    /\ ncalls' = ncalls + 1

Return ==
    /\ pc = "done"
    /\ pc' = "idle" /\ cur' = NoCall /\ rep' = FALSE
    /\ log' = <<>> /\ out' = <<>> /\ ret' = "None" /\ hw0' = HW
    /\ UNCHANGED <<ncalls, coverHW, annealHW, psHW, optHW, fx>>

----
\* Detector cover.  status = 1 is the open cover.

cover_target(cmd) == IF cmd = "open" THEN 1 ELSE 0

\* A command to a cover that is already there starts no motion.
cover_put(c, cmd) ==
    IF c.cmd = "none" /\ c.status = cover_target(cmd) THEN c ELSE [c EXCEPT !.cmd = cmd]

CoverMoves ==
    /\ pc # "done"
    /\ cover.cmd # "none"
    /\ cover' = [status |-> cover_target(cover.cmd), cmd |-> "none"]
    /\ UNCHANGED <<sess, annealHW, psHW, optHW, fx>>

detectorCoverClose ==
    /\ Invoke([op |-> "detectorCoverClose", args |-> <<>>])
    /\ cover' = cover_put(cover, "close")
    /\ log' = Put(<<>>, "cover_detector.close", 1)
    /\ out' = <<>> /\ ret' = "running"
    /\ pc' = "close_poll"
    /\ UNCHANGED <<annealHW, psHW, optHW, fx>>

\* Mutant: the close command is sent again on every pass of the loop.
detectorCoverClose_poll_resend ==
    /\ pc = "close_poll"
    /\ IF cover.status = 1
       THEN /\ log' = Put(Get(log, "cover_detector.status", cover.status),
                          "cover_detector.close", 1)
            /\ UNCHANGED <<pc, ret>>
       ELSE /\ log' = Get(log, "cover_detector.status", cover.status)
            /\ pc' = "done" /\ ret' = "None"
    /\ UNCHANGED <<cur, rep, out, hw0, ncalls, coverHW, annealHW, psHW, optHW, fx>>

detectorCoverClose_poll ==
    /\ pc = "close_poll"
    /\ log' = Get(log, "cover_detector.status", cover.status)
    /\ IF cover.status = 1
       THEN UNCHANGED <<pc, ret>>
       ELSE pc' = "done" /\ ret' = "None"
    /\ UNCHANGED <<cur, rep, out, hw0, ncalls, coverHW, annealHW, psHW, optHW, fx>>

detectorCoverOpen ==
    /\ Invoke([op |-> "detectorCoverOpen", args |-> <<>>])
    /\ cover' = cover_put(cover, "open")
    /\ log' = Put(<<>>, "cover_detector.open", 1)
    /\ out' = <<>> /\ ret' = "running"
    /\ pc' = "open_poll"
    /\ UNCHANGED <<annealHW, psHW, optHW, fx>>

\* Mutant: the loop gives up after one sample, whatever the status is.
detectorCoverOpen_poll_once ==
    /\ pc = "open_poll"
    /\ log' = Get(log, "cover_detector.status", cover.status)
    /\ pc' = "done" /\ ret' = "None"
    /\ UNCHANGED <<cur, rep, out, hw0, ncalls, coverHW, annealHW, psHW, optHW, fx>>

detectorCoverOpen_poll ==
    /\ pc = "open_poll"
    /\ log' = Get(log, "cover_detector.status", cover.status)
    /\ IF cover.status # 1
       THEN UNCHANGED <<pc, ret>>
       ELSE pc' = "done" /\ ret' = "None"
    /\ UNCHANGED <<cur, rep, out, hw0, ncalls, coverHW, annealHW, psHW, optHW, fx>>

----
\* Annealer and Governor.

govStatusGet(s) == gov = s

\* annealer.inStatus and annealer.outStatus: the paddle's two end switches.
inStatus == IF annealer.pos = "in" THEN 1 ELSE 0

outStatus == IF annealer.pos = "out" THEN 1 ELSE 0

govStateSet(l, s) == Put(l, "gov", s)

\* The paddle follows the air valve: out -> moving -> in and back.
AnnealerMoves ==
    /\ pc # "done"
    /\ \/ annealer.air = 1 /\ annealer.pos # "in"
       \/ annealer.air = 0 /\ annealer.pos # "out"
    /\ annealer' = [annealer EXCEPT !.pos =
           IF annealer.pos = "moving"
           THEN (IF annealer.air = 1 THEN "in" ELSE "out")
           ELSE "moving"]
    /\ UNCHANGED <<sess, coverHW, gov, psHW, optHW, fx>>

anneal ==
    /\ Invoke([op |-> "anneal", args |-> <<>>])
    /\ IF ~govStatusGet("SA")
       THEN /\ out' = <<"Not in Governor state SA, exiting">>
            /\ ret' = "-1"
            /\ log' = <<>>
            /\ pc' = "done"
            /\ UNCHANGED <<annealer, gov>>
       ELSE /\ gov' = "CB"
            /\ annealer' = [annealer EXCEPT !.air = 1]
            /\ log' = Put(govStateSet(<<>>, "CB"), "annealer.air", 1)
            /\ out' = <<>> /\ ret' = "running"
            /\ pc' = "anneal_in_poll"
    /\ UNCHANGED <<coverHW, psHW, optHW, fx>>

\* Mutant: the paddle is retracted without waiting for inStatus.
anneal_in_poll_nowait ==
    /\ pc = "anneal_in_poll"
    /\ annealer' = [annealer EXCEPT !.air = 0]
    /\ log' = Put(Get(log, "annealer.inStatus", inStatus), "annealer.air", 0)
    /\ pc' = "anneal_out_poll"
    /\ UNCHANGED <<cur, rep, out, ret, hw0, ncalls, coverHW, gov, psHW, optHW, fx>>

anneal_in_poll ==
    /\ pc = "anneal_in_poll"
    /\ LET seen == Get(log, "annealer.inStatus", inStatus) IN
       IF inStatus = 0
       THEN log' = seen /\ UNCHANGED <<pc, annealer>>
       ELSE /\ annealer' = [annealer EXCEPT !.air = 0]
            /\ log' = Put(seen, "annealer.air", 0)
            /\ pc' = "anneal_out_poll"
    /\ UNCHANGED <<cur, rep, out, ret, hw0, ncalls, coverHW, gov, psHW, optHW, fx>>

anneal_out_poll ==
    /\ pc = "anneal_out_poll"
    /\ LET seen == Get(log, "annealer.outStatus", outStatus) IN
       IF outStatus = 0
       THEN log' = seen /\ UNCHANGED <<pc, gov, ret>>
       ELSE /\ gov' = "SA"
            /\ log' = govStateSet(seen, "SA")
            /\ ret' = "None"
            /\ pc' = "done"
    /\ UNCHANGED <<cur, rep, out, hw0, ncalls, coverHW, annealer, psHW, optHW, fx>>

----
\* Bimorph mirror power supplies (set_influence).

BankSize == 16

MaxElectrode == 31

MaxDiff == 500

allowed_bimorphs == {"hfm", "kb"}

abs(x) == IF x < 0 THEN -x ELSE x

\* The electrode numbers behind demand_pvs, in order (0-based as in the code).
demand_pvs(bank) == [j \in 0..(BankSize - 1) |-> (bank - 1) * BankSize + j]

\* i: index of the electrode within the bank that was read.
bank_index(electrode) == IF electrode < BankSize THEN electrode ELSE electrode - BankSize

\* Mutant: the step is not applied to the vector that is checked.
new_demands_unstepped(demands, i, step) == demands

new_demands(demands, i, step) ==
    [j \in DOMAIN demands |->
        IF j = i THEN demands[j] + step
        ELSE IF i > 0 /\ j = i - 1 THEN demands[j] - step
        ELSE demands[j]]

np_diff(v) == [j \in 0..(BankSize - 2) |-> v[j + 1] - v[j]]

\* Mutant: the comparison is inverted.
diff_too_large_inverted(v) == \E j \in DOMAIN np_diff(v) : abs(np_diff(v)[j]) < MaxDiff

\* The loop over np.diff(new_demands): some difference is larger than 500.
diff_too_large(v) == \E j \in DOMAIN np_diff(v) : abs(np_diff(v)[j]) > MaxDiff

\* The power supply steps the electrode a command addresses by its step size.
ps_command(d, c, step) ==
    IF c[3] \notin DOMAIN d THEN d
    ELSE IF c[2] = "DECR_U_CMD.A" THEN [d EXCEPT ![c[3]] = @ - step]
    ELSE IF c[2] = "INCR_U_CMD.A" THEN [d EXCEPT ![c[3]] = @ + step]
    ELSE d

RECURSIVE ps_apply(_, _, _)
ps_apply(d, cmds, step) ==
    IF cmds = <<>> THEN d
    ELSE ps_apply(ps_command(d, Head(cmds), step), Tail(cmds), step)

\* Mutant: the bank argument is written as it is.
bank_value_unshifted(bank) == bank

\* bank_pv.put(bank-1, wait=True)
bank_value(bank) == bank - 1

\* Mutant: the commands address the index within the bank, not the electrode.
step_commands_by_index(electrode, i) ==
    (IF i > 0 THEN <<<<"put", "DECR_U_CMD.A", i - 1>>>> ELSE <<>>)
        \o <<<<"put", "INCR_U_CMD.A", i>>>>

\* The device writes after the safety check, in order.
step_commands(electrode, i) ==
    (IF i > 0 THEN <<<<"put", "DECR_U_CMD.A", electrode - 1>>>> ELSE <<>>)
        \o <<<<"put", "INCR_U_CMD.A", electrode>>>>

step_messages(i) ==
    (IF i > 0 THEN <<"decrementing electrode">> ELSE <<>>)
        \o <<"incrementing electrode">>

set_influence(electrode, bimorph, bank) ==
    /\ Invoke([op |-> "set_influence", args |-> <<electrode, bimorph, bank>>])
    /\ pc' = "done"
    /\ ret' = "None"
    /\ IF bimorph \notin allowed_bimorphs
       THEN /\ out' = <<"bimorph should be one of">>
            /\ log' = <<>>
            /\ UNCHANGED psHW
       ELSE IF electrode < 0 \/ electrode > MaxElectrode
       THEN /\ out' = <<"electrode must be between 0 and 31">>
            /\ log' = <<>>
            /\ UNCHANGED psHW
       ELSE LET step == psStep[bimorph]
                demands == [j \in 0..(BankSize - 1) |->
                               psDemand[bimorph][demand_pvs(bank)[j]]]
                i == bank_index(electrode)
                new == new_demands(demands, i, step)
                selected == Put(<<>>, "BANK_NO_32", bank_value(bank))
            IN  /\ psBank' = [psBank EXCEPT ![bimorph] = bank_value(bank)]
                /\ UNCHANGED psStep
                /\ IF diff_too_large(new)
                   THEN /\ out' = <<"got difference between values larger than 500">>
                        /\ log' = selected
                        /\ UNCHANGED psDemand
                   ELSE /\ out' = step_messages(i)
                        /\ log' = selected \o step_commands(electrode, i)
                        /\ psDemand' = [psDemand EXCEPT ![bimorph] =
                               ps_apply(@, step_commands(electrode, i), step)]
    /\ UNCHANGED <<coverHW, annealHW, optHW, fx>>

----
\* Attenuator (trans_set) and transfocator (set_beamsize).

MinEnergy == 5000

MaxEnergy == 30000

CRLMinEnergy == 9000

get_energy == hdcm

\* The attenuator starts moving on set_trans and reports done when it arrived.
AttenMoves ==
    /\ pc # "done"
    /\ trans.done # 1
    /\ trans' = [trans EXCEPT !.done = 1]
    /\ UNCHANGED <<sess, coverHW, annealHW, psHW, hdcm, lens, fx>>

trans_set(transmission, att) ==
    /\ Invoke([op |-> "trans_set", args |-> <<transmission, att>>])
    /\ LET e_dcm == get_energy IN
       IF e_dcm < MinEnergy \/ e_dcm > MaxEnergy
       THEN /\ out' = <<"Monochromator energy out of range">>
            /\ log' = <<>>
            /\ ret' = "None"
            /\ pc' = "done"
            /\ UNCHANGED trans
       ELSE /\ trans' = [energy |-> e_dcm, transmission |-> transmission,
                         set_trans |-> 1, done |-> 0]
            /\ log' = Put(Put(Put(<<>>, "trans.energy", e_dcm),
                              "trans.transmission", transmission), "trans.set_trans", 1)
            /\ out' = <<>>
            /\ ret' = "running"
            /\ pc' = IF att = "trans_bcu" THEN "trans_poll" ELSE "trans_print"
    /\ UNCHANGED <<coverHW, annealHW, psHW, hdcm, lens, fx>>

trans_set_poll ==
    /\ pc = "trans_poll"
    /\ log' = Get(log, "atten_bcu.done", trans.done)
    /\ pc' = IF trans.done # 1 THEN "trans_poll" ELSE "trans_print"
    /\ UNCHANGED <<cur, rep, out, ret, hw0, ncalls, coverHW, annealHW, psHW, optHW, fx>>

trans_set_print ==
    /\ pc = "trans_print"
    /\ out' = Append(out, "Transmission set to")
    /\ ret' = "None"
    /\ pc' = "done"
    /\ UNCHANGED <<cur, rep, log, hw0, ncalls, coverHW, annealHW, psHW, optHW, fx>>

\* The lens moves of each branch of set_beamsize, in order: <<lens, direction>>.
vertical_moves(sizeV) ==
    IF sizeV = "V0"
    THEN << <<"vs", "out">>, <<"v2a", "out">>, <<"v1a", "out">>, <<"v1b", "out">> >>
    ELSE IF sizeV = "V1"
    THEN << <<"vs", "in">>, <<"v2a", "out">>, <<"v1a", "out">>, <<"v1b", "in">> >>
    ELSE <<>>

horizontal_moves(sizeH) ==
    IF sizeH = "H0"
    THEN << <<"h4a", "out">>, <<"h2a", "out">>, <<"h1a", "out">>, <<"h1b", "out">> >>
    ELSE IF sizeH = "H1"
    THEN << <<"h4a", "out">>, <<"h2a", "in">>, <<"h1a", "in">>, <<"h1b", "in">> >>
    ELSE <<>>

\* bps.mv(transfocator.<lens>.mv_<direction>, 1) for each move.
lens_after(l, moves) ==
    [x \in DOMAIN l |->
        IF \E j \in 1..Len(moves) : moves[j][1] = x
        THEN moves[CHOOSE j \in 1..Len(moves) : moves[j][1] = x][2]
        ELSE l[x]]

lens_puts(moves) == [j \in 1..Len(moves) |-> <<"put", moves[j][1], moves[j][2]>>]

beamsize_messages(sizeV, sizeH) ==
    (IF get_energy < CRLMinEnergy THEN <<"Warning: For energies < 9 keV">> ELSE <<>>)
    \o (IF sizeV \notin {"V0", "V1"}
        THEN <<"Error: Vertical size argument has to be V0 or V1">> ELSE <<>>)
    \o (IF sizeH \notin {"H0", "H1"}
        THEN <<"Error: Horizontal size argument has to be H0 or H1">> ELSE <<>>)

set_beamsize(sizeV, sizeH) ==
    /\ Invoke([op |-> "set_beamsize", args |-> <<sizeV, sizeH>>])
    /\ LET moves == vertical_moves(sizeV) \o horizontal_moves(sizeH) IN
       /\ lens' = lens_after(lens, moves)
       /\ log' = lens_puts(moves)
    /\ out' = beamsize_messages(sizeV, sizeH)
    /\ ret' = "None"
    /\ pc' = "done"
    /\ UNCHANGED <<coverHW, annealHW, psHW, hdcm, trans, fx>>

----
\* X-ray utility functions xf_bragg2e and xf_e2bragg.
\*
\* Angles are held in tenths (t = 10 is the argument 1.0) with their unit:
\* [u |-> "deg" or "rad", v |-> tenths].  Floating point values are held
\* exactly: the IEEE specials [k |-> "nan"], [k |-> "inf", s |-> sign],
\* [k |-> "zero"], and the finite values by the factors they are made of.

NaN == [k |-> "nan"]

Zero == [k |-> "zero"]

Inf(sgn) == [k |-> "inf", s |-> sgn]

RECURSIVE py_xor(_, _)
\* Python's a ^ b on integers of any sign.
py_xor(a, b) ==
    IF a = 0 THEN b
    ELSE IF b = 0 THEN a
    ELSE IF a = -1 THEN -b - 1
    ELSE IF b = -1 THEN -a - 1
    ELSE (((a % 2) + (b % 2)) % 2) + 2 * py_xor(a \div 2, b \div 2)

\* The argument of np.sqrt in d0.  99-macros.py writes h^2+k^2+l^2, which
\* Python reads as h ^ (2+k) ^ (2+l) ^ 2; 99-macros_99.py writes h**2+k**2+l**2.
radicand(file, h, k, l) ==
    IF file = "99-macros.py"
    THEN py_xor(py_xor(py_xor(h, 2 + k), 2 + l), 2)
    ELSE h * h + k * k + l * l

\* np.sqrt of an integer: nan below zero (numpy warns, it does not raise).
np_sqrt(r) == IF r < 0 THEN NaN ELSE IF r = 0 THEN Zero ELSE [k |-> "sqrt", r |-> r]

\* d0 = 2*5.43102*(1-2.4e-4*LN)/np.sqrt(...): a positive constant over a numpy value.
lattice_d0(root, LN) ==
    IF root.k = "nan" THEN NaN
    ELSE IF root.k = "zero" THEN Inf(1)
    ELSE [k |-> "d0", r |-> root.r, LN |-> LN]

\* tt = t*np.pi/180 if t > 1 else t
to_radians(t) == IF t > 10 THEN [u |-> "deg", v |-> t] ELSE [u |-> "rad", v |-> t]

\* The angle in [-90 deg, 90 deg] with the same sine.
principal(a) ==
    IF a.u = "rad" THEN a
    ELSE LET w == a.v % 3600 IN
         [u |-> "deg", v |-> IF w <= 900 THEN w ELSE IF w <= 2700 THEN 1800 - w ELSE w - 3600]

\* np.sin: a sine is held as its principal angle, which determines it.
np_sin(a) ==
    LET pa == principal(a) IN
    IF pa.v = 0 THEN Zero ELSE [k |-> "sin", pa |-> pa, s |-> IF pa.v < 0 THEN -1 ELSE 1]

\* d0*np.sin(tt)
d0_times_sin(d0, sn) ==
    IF d0.k = "nan" THEN NaN
    ELSE IF d0.k = "inf" THEN (IF sn.k = "zero" THEN NaN ELSE Inf(sn.s))
    ELSE IF sn.k = "zero" THEN Zero
    ELSE [k |-> "d0sin", r |-> d0.r, LN |-> d0.LN, pa |-> sn.pa, s |-> sn.s]

\* 12398.42/x for a numpy x: division by zero gives inf, by inf gives zero.
energy_of(x) ==
    IF x.k = "nan" THEN NaN
    ELSE IF x.k = "inf" THEN Zero
    ELSE IF x.k = "zero" THEN Inf(1)
    ELSE [k |-> "E", r |-> x.r, LN |-> x.LN, pa |-> x.pa, s |-> x.s, m |-> 1]

xf_bragg2e(file, t, h, k, l, LN0) ==
    LET LN == IF LN0 # 0 THEN 1 ELSE LN0
        tt == to_radians(t)
        d0 == lattice_d0(np_sqrt(radicand(file, h, k, l)), LN)
    IN  energy_of(d0_times_sin(d0, np_sin(tt)))

\* Thousandths of the sine of the principal angles in use.
sin_milli(pa) ==
    LET w == abs(pa.v)
        m == IF pa.u = "rad"
             THEN (CASE w = 5 -> 479 [] w = 10 -> 841 [] OTHER -> 1000)
             ELSE (CASE w = 20 -> 35 [] w = 100 -> 174 [] w = 300 -> 500
                     [] w = 450 -> 707 [] w = 600 -> 866 [] OTHER -> 1000)
    IN  IF pa.v < 0 THEN -m ELSE m

\* Hundredths of the square root of r > 0.
sqrt_centi(r) == CHOOSE x \in 0..(100 * r) : x * x <= 10000 * r /\ 10000 * r < (x + 1) * (x + 1)

\* A finite energy in eV, to a few eV: 12398.42/(2*5.43102) = 1141.44, and
\* 1/(1-2.4e-4) = 1 + 24/100000 to first order.
energy_eV(E) ==
    LET e0 == (11414 * sqrt_centi(E.r)) \div sin_milli(E.pa)
    IN  e0 + (e0 * 24 * E.LN) \div 100000

\* E < 100
below_100(E) ==
    IF E.k = "nan" THEN FALSE
    ELSE IF E.k = "zero" THEN TRUE
    ELSE IF E.k = "inf" THEN E.s < 0
    ELSE energy_eV(E) < 100

\* if E<100: E=E*1e3
to_eV(E) == IF below_100(E) /\ E.k = "E" THEN [E EXCEPT !.m = 1000 * @] ELSE E

\* 12398.42/d0/E with d0 = 2*5.43102/np.sqrt(...)
arcsin_argument(d0, E) ==
    IF d0.k = "nan" \/ E.k = "nan" THEN NaN
    ELSE IF d0.k = "inf"
    THEN (IF E.k = "zero" THEN NaN ELSE Zero)
    ELSE IF E.k = "zero" THEN Inf(1)
    ELSE IF E.k = "inf" THEN Zero
    ELSE [k |-> "x", num |-> d0.r, den |-> E.r, LN |-> E.LN, pa |-> E.pa, m |-> E.m]

\* np.arcsin(x) * 180/np.pi: the angle in degrees; nan outside [-1, 1].
arcsin_degrees(x) ==
    IF x.k = "nan" \/ x.k = "inf" THEN NaN
    ELSE IF x.k = "zero" THEN [u |-> "deg", v |-> 0]
    ELSE IF x.num = x.den /\ x.LN = 0 /\ x.m = 1 THEN x.pa
    ELSE [u |-> "arcsin", v |-> 0, x |-> x]

xf_e2bragg(file, E, h, k, l) ==
    LET d0 == lattice_d0(np_sqrt(radicand(file, h, k, l)), 0)
    IN  arcsin_degrees(arcsin_argument(d0, to_eV(E)))

Unset == [k |-> "unset"]

\* xf_bragg2e(t, h, k, l, LN) is evaluated in the file fx names.
Bragg2e ==
    /\ fx.file # "none"
    /\ fx.E = Unset
    /\ fx' = [fx EXCEPT !.rad = radicand(fx.file, fx.h, fx.k, fx.l),
                        !.E = xf_bragg2e(fx.file, fx.t, fx.h, fx.k, fx.l, fx.LN)]
    /\ UNCHANGED <<sess, coverHW, annealHW, psHW, optHW>>

\* xf_e2bragg is applied to that energy with the same indices.
E2bragg ==
    /\ fx.file # "none"
    /\ fx.E # Unset
    /\ fx.back = Unset
    /\ fx' = [fx EXCEPT !.rad2 = radicand(fx.file, fx.h, fx.k, fx.l),
                        !.back = xf_e2bragg(fx.file, fx.E, fx.h, fx.k, fx.l)]
    /\ UNCHANGED <<sess, coverHW, annealHW, psHW, optHW>>

----
\* Arguments tried at the prompt.
Electrodes == {-1, 0, 1, 16, 17, 31, 32}

Bimorphs == {"hfm", "kb", "vkb"}

Banks == {1, 2}

StepSizes == {200, 300}

\* Demand profiles the supplies may hold: flat, or with a jump inside each bank.
Profiles ==
    { [n \in 0..(2 * BankSize - 1) |-> 0],
      [n \in 0..(2 * BankSize - 1) |-> IF (n % BankSize) >= 8 THEN 600 ELSE 0] }

Energies == {4999, 5000, 8000, 30000, 30001}

Transmissions == {10, 100}

Attenuators == {"trans_bcu", "trans_rc"}

SizeVs == {"V0", "V1", "V2"}

SizeHs == {"H0", "H1", "H2"}

Lenses == {"vs", "v2a", "v1a", "v1b", "h4a", "h2a", "h1a", "h1b"}

Files == {"99-macros.py", "99-macros_99.py"}

\* Bragg angle arguments in tenths: -0.5, 0, 0.5 and 1 are radians, the rest degrees.
Angles == {-5, 0, 5, 10, 20, 100, 300, 450, 900, 1200, 1800, 2700}

\* Largest Miller index tried.
MaxMiller == 3

Millers == (-1)..MaxMiller

NoConv == [file |-> "none"]

InitSession ==
    /\ pc = "idle" /\ cur = NoCall /\ rep = FALSE
    /\ log = <<>> /\ out = <<>> /\ ret = "None" /\ ncalls = 0
    /\ fx = NoConv
    /\ hw0 = HW

Init ==
    /\ cover \in {[status |-> s, cmd |-> "none"] : s \in {0, 1}}
    /\ annealer = [air |-> 0, pos |-> "out"]
    /\ gov \in {"SA", "CB"}
    /\ psBank = [b \in allowed_bimorphs |-> 0]
    /\ \E s \in StepSizes : psStep = [b \in allowed_bimorphs |-> s]
    /\ \E p \in Profiles : psDemand = [b \in allowed_bimorphs |-> p]
    /\ hdcm = 12660
    /\ trans = [energy |-> 0, transmission |-> 0, set_trans |-> 0, done |-> 1]
    /\ lens = [x \in Lenses |-> "out"]
    /\ InitSession

Next ==
    \/ detectorCoverClose
    \/ detectorCoverClose_poll
    \/ detectorCoverOpen
    \/ detectorCoverOpen_poll
    \/ anneal
    \/ anneal_in_poll
    \/ anneal_out_poll
    \/ \E e \in Electrodes, b \in Bimorphs, k \in Banks : set_influence(e, b, k)
    \/ Return
    \/ CoverMoves
    \/ AnnealerMoves

Spec == Init /\ [][Next]_vars

\* The macros that validate their arguments, on optics that may be anywhere.
InitVal ==
    /\ cover = [status |-> 1, cmd |-> "none"]
    /\ annealer = [air |-> 0, pos |-> "out"]
    /\ gov = "SA"
    /\ psBank = [b \in allowed_bimorphs |-> 0]
    /\ \E s \in StepSizes : psStep = [b \in allowed_bimorphs |-> s]
    /\ \E p \in Profiles : psDemand = [b \in allowed_bimorphs |-> p]
    /\ hdcm \in Energies
    /\ trans = [energy |-> 0, transmission |-> 0, set_trans |-> 0, done |-> 1]
    /\ \E d \in {"in", "out"} : lens = [x \in Lenses |-> d]
    /\ InitSession

NextVal ==
    \/ \E t \in Transmissions, a \in Attenuators : trans_set(t, a)
    \/ trans_set_poll
    \/ trans_set_print
    \/ \E v \in SizeVs, h \in SizeHs : set_beamsize(v, h)
    \/ \E e \in Electrodes, b \in Bimorphs, k \in Banks : set_influence(e, b, k)
    \/ Return
    \/ AttenMoves

SpecVal == InitVal /\ [][NextVal]_vars

----
\* Properties of set_influence.  They are stated on the finished call
\* (pc = "done"), from its arguments (cur.args), the hardware it started on
\* (hw0), the accesses it made (log) and the hardware it left (HW).

InfluenceDone == pc = "done" /\ cur.op = "set_influence"

InfluenceValid == cur.args[2] \in {"hfm", "kb"} /\ cur.args[1] \in 0..31

\* The demand vector read by the call with the step applied: previous
\* electrode i-1 decreased when i > 0, target electrode i increased.
Predicted ==
    LET b == cur.args[2]
        i == cur.args[1] % 16
        read == [j \in 0..15 |-> hw0.psDemand[b][(cur.args[3] - 1) * 16 + j]]
        step == hw0.psStep[b]
    IN  [j \in 0..15 |->
            IF j = i THEN read[j] + step
            ELSE IF j = i - 1 THEN read[j] - step
            ELSE read[j]]

PredictedTooLarge ==
    \E j \in 0..14 :
        Predicted[j + 1] - Predicted[j] > 500 \/ Predicted[j] - Predicted[j + 1] > 500

IsStepWrite(x) == x[1] = "put" /\ x[2] \in {"DECR_U_CMD.A", "INCR_U_CMD.A"}

StepWrites == SelectSeq(log, IsStepWrite)

\* C1: a valid set_influence call whose predicted demand vector has two
\* adjacent entries more than 500 apart returns without issuing the
\* decrement command and without issuing the increment command.
C1_NoStepWhenTooLarge ==
    (InfluenceDone /\ InfluenceValid /\ PredictedTooLarge) => StepWrites = <<>>

C1_Witness ==
    /\ InfluenceDone /\ InfluenceValid /\ PredictedTooLarge
    /\ cur.args[1] % 16 > 0
    /\ out = <<"got difference between values larger than 500">>

\* C2 as claimed: a set_influence call that aborts on the 500 check has
\* issued no device write of any kind and the hardware, the selected bank
\* included, is as it was before the call.
C2_Claim_NoWriteAtAll ==
    (InfluenceDone /\ InfluenceValid /\ PredictedTooLarge) => (log = <<>> /\ HW = hw0)

\* C2 as amended: a set_influence call that aborts on the 500 check has
\* issued exactly one device write, the bank selection BANK_NO_32 := bank-1
\* made before the demands are read; the hardware is as before the call
\* except for the selected bank of that power supply.
C2_AbortWritesOnlyBank ==
    (InfluenceDone /\ InfluenceValid /\ PredictedTooLarge) =>
        /\ log = << <<"put", "BANK_NO_32", cur.args[3] - 1>> >>
        /\ HW = [hw0 EXCEPT !.psBank[cur.args[2]] = cur.args[3] - 1]

C2_Witness ==
    /\ InfluenceDone /\ InfluenceValid /\ PredictedTooLarge
    /\ HW.psBank # hw0.psBank

\* C4: a valid set_influence call that passes the 500 check issues, with
\* i = electrode mod 16, no decrement and one increment addressed to the
\* electrode when i = 0, and otherwise one decrement addressed to
\* electrode-1 followed by one increment addressed to the electrode; no
\* status is read after either write.
C4_DecrementThenIncrement ==
    (InfluenceDone /\ InfluenceValid /\ ~PredictedTooLarge) =>
        LET e == cur.args[1] IN
        /\ StepWrites =
              IF e % 16 = 0
              THEN << <<"put", "INCR_U_CMD.A", e>> >>
              ELSE << <<"put", "DECR_U_CMD.A", e - 1>>, <<"put", "INCR_U_CMD.A", e>> >>
        /\ \A n \in 1..Len(log) : log[n][1] = "put"
        /\ IsStepWrite(log[Len(log)])

C4_Witness ==
    /\ InfluenceDone /\ InfluenceValid /\ ~PredictedTooLarge
    /\ cur.args[1] = 17
    /\ Len(StepWrites) = 2

----
\* Validation failures (trans_set, set_influence, set_beamsize).

EnergyOutOfRange == hdcm < 5000 \/ hdcm > 30000

BeamsizeInvalid == cur.args[1] \notin {"V0", "V1"} \/ cur.args[2] \notin {"H0", "H1"}

NothingDone == out # <<>> /\ log = <<>> /\ HW = hw0

\* C3, for trans_set and set_influence: a validation failure prints a
\* message and returns with no device write and the hardware unchanged, and
\* trans_set proceeds to its writes for every energy in [5000, 30000].
C3_TransAndInfluence ==
    /\ (pc = "done" /\ cur.op = "trans_set" /\ EnergyOutOfRange) => NothingDone
    /\ (cur.op = "trans_set" /\ ~EnergyOutOfRange) =>
           (Len(log) >= 3 /\ log[3] = <<"put", "trans.set_trans", 1>>)
    /\ (InfluenceDone /\ ~InfluenceValid) => NothingDone

\* C3 as claimed: every validation failure of trans_set, set_influence and
\* set_beamsize prints a message and returns early with no device write and
\* the hardware unchanged; for set_beamsize, whenever sizeV is not V0/V1 or
\* sizeH is not H0/H1, whatever the other argument is.
C3_Claim_ValidationFailures ==
    /\ C3_TransAndInfluence
    /\ (pc = "done" /\ cur.op = "set_beamsize" /\ BeamsizeInvalid) => NothingDone

----
\* Actuate and await (detectorCoverClose, detectorCoverOpen, anneal).

IsActuate(x) ==
    x[1] = "put" /\ x[2] \in {"cover_detector.close", "cover_detector.open", "annealer.air"}

\* The status PV a command is awaited on.
StatusOf(x) ==
    IF x[2] = "annealer.air"
    THEN (IF x[3] = 1 THEN "annealer.inStatus" ELSE "annealer.outStatus")
    ELSE "cover_detector.status"

\* y is a sample of the status the command x waits for.
Awaited(x, y) ==
    /\ y[1] = "get" /\ y[2] = StatusOf(x)
    /\ IF x[2] = "cover_detector.close" THEN y[3] # 1 ELSE y[3] = 1

\* C5: in detectorCoverClose, detectorCoverOpen and both phases of anneal
\* the actuator command is issued exactly once, before the first sample of
\* its status, and from the command until the awaited status is observed
\* the call makes only reads, however often it polls.
C5_OneCommandThenReads ==
    /\ pc = "close_poll" => log[1] = <<"put", "cover_detector.close", 1>>
    /\ pc = "open_poll" => log[1] = <<"put", "cover_detector.open", 1>>
    /\ pc = "anneal_in_poll" => \E j \in 1..Len(log) : log[j] = <<"put", "annealer.air", 1>>
    /\ pc = "anneal_out_poll" => \E j \in 1..Len(log) : log[j] = <<"put", "annealer.air", 0>>
    /\ \A j \in 1..Len(log) :
          IsActuate(log[j]) =>
             /\ \A n \in 1..Len(log) : n # j => log[n] # log[j]
             /\ \A n \in 1..(j - 1) : ~(log[n][1] = "get" /\ log[n][2] = StatusOf(log[j]))
             /\ \A n \in (j + 1)..Len(log) :
                   (\A m \in (j + 1)..(n - 1) : ~Awaited(log[j], log[m])) => log[n][1] = "get"

C5_Witness ==
    /\ pc = "anneal_out_poll"
    /\ log[Len(log)] = <<"get", "annealer.outStatus", 0>>
    /\ \E j \in 1..Len(log) : log[j] = <<"get", "annealer.inStatus", 0>>

----
\* Repeated calls.

Sequencing == {"detectorCoverClose", "detectorCoverOpen", "anneal", "set_influence"}

\* C6 as claimed: a sequencing operation invoked a second time, on the
\* device state the first call reached, leaves the device state unchanged.
C6_Claim_Idempotent ==
    (pc = "done" /\ rep /\ cur.op \in Sequencing) => HW = hw0

\* C6 as amended: that holds for detectorCoverClose, detectorCoverOpen and
\* anneal, and for a set_influence call that fails validation or the 500
\* check; a repeated set_influence call that passes the check steps the
\* electrodes once more (the target electrode is one step higher than after
\* the first call), so it is not idempotent.
C6_IdempotentExceptStep ==
    (pc = "done" /\ rep /\ cur.op \in Sequencing) =>
        IF cur.op = "set_influence" /\ InfluenceValid /\ ~PredictedTooLarge
        THEN /\ HW # hw0
             /\ psDemand[cur.args[2]][cur.args[1]] =
                   hw0.psDemand[cur.args[2]][cur.args[1]] + hw0.psStep[cur.args[2]]
        ELSE HW = hw0

C6_Witness ==
    /\ pc = "done" /\ rep /\ cur.op = "set_influence"
    /\ InfluenceValid /\ ~PredictedTooLarge
    /\ cur.args[1] % 16 > 0
    /\ HW # hw0

----
\* anneal.

IsAnnealEvent(x) == x[1] = "put" \/ (x[1] = "get" /\ x[3] = 1)

AnnealEvents == SelectSeq(log, IsAnnealEvent)

AnnealOrder ==
    << <<"put", "gov", "CB">>, <<"put", "annealer.air", 1>>,
       <<"get", "annealer.inStatus", 1>>, <<"put", "annealer.air", 0>>,
       <<"get", "annealer.outStatus", 1>>, <<"put", "gov", "SA">> >>

IsPrefix(a, b) == Len(a) <= Len(b) /\ \A n \in 1..Len(a) : a[n] = b[n]

\* C10: anneal entered with the Governor not in SA returns -1 with no
\* Governor transition and no annealer write.  Entered in SA, its writes
\* and observed statuses are, in this order: Governor CB, air 1, inStatus
\* true, air 0, outStatus true, Governor SA; a normal return has made all of
\* them, the last air command being 0.
C10_AnnealOrder ==
    cur.op = "anneal" =>
        IF hw0.gov # "SA"
        THEN pc = "done" /\ ret = "-1" /\ log = <<>> /\ HW = hw0
        ELSE /\ IsPrefix(AnnealEvents, AnnealOrder)
             /\ Len(AnnealEvents) >= 2
             /\ pc = "done" => (AnnealEvents = AnnealOrder /\ ret = "None" /\ annealer.air = 0)

C10_Witness ==
    /\ cur.op = "anneal" /\ pc = "done" /\ ret = "None"
    /\ \E j \in 1..Len(log) : log[j] = <<"get", "annealer.inStatus", 0>>
    /\ gov = "SA"

----
\* xf_bragg2e and xf_e2bragg.

SumOfSquares == fx.h * fx.h + fx.k * fx.k + fx.l * fx.l

\* C7 as claimed: in both files the quantity under the square root of d0 is
\* h*h + k*k + l*l, in xf_bragg2e and in xf_e2bragg alike.
C7_Claim_SumOfSquares ==
    /\ fx.E # Unset => fx.rad = SumOfSquares
    /\ fx.back # Unset => fx.rad2 = SumOfSquares

\* C8 as claimed: xf_bragg2e with h = k = l = 0 returns no energy value,
\* whether finite, zero, infinite or NaN.
C8_Claim_ZeroIndicesFail ==
    (fx.E # Unset /\ fx.h = 0 /\ fx.k = 0 /\ fx.l = 0) =>
        fx.E.k \notin {"E", "zero", "inf", "nan"}

\* The Bragg angles: above 0 and up to 90 degrees (1 radian is below 90 degrees).
ValidBragg(t) == 0 < t /\ t <= 900

AngleInDegrees(t) == IF t > 10 THEN [u |-> "deg", v |-> t] ELSE [u |-> "rad", v |-> t]

\* C9 as claimed: with LN = 0, xf_e2bragg(xf_bragg2e(angle,h,k,l),h,k,l) is
\* the angle in degrees, for every Bragg angle and all Miller indices, in
\* both files.
C9_Claim_RoundTrip ==
    (fx.back # Unset /\ fx.LN = 0 /\ ValidBragg(fx.t) /\ <<fx.h, fx.k, fx.l>> # <<0, 0, 0>>) =>
        fx.back = AngleInDegrees(fx.t)

\* The round trip in 99-macros_99.py alone, where the radicand is the sum of squares.
RoundTrip_macros_99 == fx.file = "99-macros_99.py" => C9_Claim_RoundTrip

\* The conversions, on every argument of the sets above.
InitConv ==
    /\ cover = [status |-> 1, cmd |-> "none"]
    /\ annealer = [air |-> 0, pos |-> "out"]
    /\ gov = "SA"
    /\ psBank = [b \in allowed_bimorphs |-> 0]
    /\ psStep = [b \in allowed_bimorphs |-> 200]
    /\ psDemand = [b \in allowed_bimorphs |-> [n \in 0..(2 * BankSize - 1) |-> 0]]
    /\ hdcm = 12660
    /\ trans = [energy |-> 0, transmission |-> 0, set_trans |-> 0, done |-> 1]
    /\ lens = [x \in Lenses |-> "out"]
    /\ pc = "idle" /\ cur = NoCall /\ rep = FALSE
    /\ log = <<>> /\ out = <<>> /\ ret = "None" /\ ncalls = 0
    /\ hw0 = HW
    /\ \E f \in Files, t \in Angles, h \in Millers, k \in Millers, l \in Millers,
          LN \in {0, 1, 2} :
          fx = [file |-> f, t |-> t, h |-> h, k |-> k, l |-> l, LN |-> LN,
                rad |-> 0, E |-> Unset, rad2 |-> 0, back |-> Unset]

NextConv ==
    \/ Bragg2e
    \/ E2bragg

SpecConv == InitConv /\ [][NextConv]_vars

----
\* Poll-until termination (detectorCoverClose, detectorCoverOpen, anneal).

\* The polling macros alone, with the devices they wait for.
NextLive ==
    \/ detectorCoverClose
    \/ detectorCoverClose_poll
    \/ detectorCoverOpen
    \/ detectorCoverOpen_poll
    \/ anneal
    \/ anneal_in_poll
    \/ anneal_out_poll
    \/ Return
    \/ CoverMoves
    \/ AnnealerMoves

\* The loops keep sampling (time.sleep returns), and a device that was
\* commanded eventually reports the commanded status and keeps it.
Fairness ==
    /\ WF_vars(detectorCoverClose_poll)
    /\ WF_vars(detectorCoverOpen_poll)
    /\ WF_vars(anneal_in_poll)
    /\ WF_vars(anneal_out_poll)
    /\ WF_vars(CoverMoves)
    /\ WF_vars(AnnealerMoves)

SpecLive == Init /\ [][NextLive]_vars /\ Fairness

Polling == pc \in {"close_poll", "open_poll", "anneal_in_poll", "anneal_out_poll"}

\* The status the loop at pc waits for is not reported now.
NotReported ==
    \/ pc = "close_poll" /\ cover.status = 1
    \/ pc = "open_poll" /\ cover.status # 1
    \/ pc = "anneal_in_poll" /\ inStatus = 0
    \/ pc = "anneal_out_poll" /\ outStatus = 0

\* A finished polling macro has sampled what it waited for.
ReturnedAfterAwaited ==
    /\ (pc = "done" /\ cur.op = "detectorCoverClose") =>
           (ret = "None" /\ log[Len(log)][1] = "get" /\ log[Len(log)][3] # 1)
    /\ (pc = "done" /\ cur.op = "detectorCoverOpen") =>
           (ret = "None" /\ log[Len(log)] = <<"get", "cover_detector.status", 1>>)
    /\ (pc = "done" /\ cur.op = "anneal" /\ hw0.gov = "SA") =>
           /\ ret = "None"
           /\ \E j, n \in 1..Len(log) :
                 /\ j < n
                 /\ log[j] = <<"get", "annealer.inStatus", 1>>
                 /\ log[n] = <<"get", "annealer.outStatus", 1>>
    /\ Polling => ret = "running"

\* No timeout: while the awaited status is not reported, a step leaves the
\* macro in its loop, neither returned nor failed.
NoTimeout == NotReported => (pc' = pc /\ ret' = "running" /\ cur' = cur)

\* C11: detectorCoverClose returns only after a status sample different
\* from 1, detectorCoverOpen only after a sample equal to 1, anneal started
\* in SA only after inStatus and then outStatus were sampled true; while the
\* awaited status is not reported the macro stays in its loop without
\* returning or failing (no timeout); and when the device eventually
\* reports the awaited status and keeps it, every polling macro returns.
C11_PollUntilTermination ==
    /\ []ReturnedAfterAwaited
    /\ [][NoTimeout]_vars
    /\ (Polling ~> (pc = "done"))

C11_Witness ==
    /\ pc = "done" /\ cur.op = "anneal" /\ ret = "None"
    /\ \E j \in 1..Len(log) : log[j] = <<"get", "annealer.inStatus", 0>>
    /\ \E j \in 1..Len(log) : log[j] = <<"get", "annealer.outStatus", 0>>

----
\* set_influence on demands that start within the limit.

\* Demand profiles with all adjacent differences within 500.
SafeProfiles ==
    { [n \in 0..(2 * BankSize - 1) |-> 0],
      [n \in 0..(2 * BankSize - 1) |-> IF (n % BankSize) >= 8 THEN 400 ELSE 0] }

InitInfl ==
    /\ cover = [status |-> 1, cmd |-> "none"]
    /\ annealer = [air |-> 0, pos |-> "out"]
    /\ gov = "SA"
    /\ psBank = [b \in allowed_bimorphs |-> 0]
    /\ \E s \in StepSizes : psStep = [b \in allowed_bimorphs |-> s]
    /\ \E p \in SafeProfiles : psDemand = [b \in allowed_bimorphs |-> p]
    /\ hdcm = 12660
    /\ trans = [energy |-> 0, transmission |-> 0, set_trans |-> 0, done |-> 1]
    /\ lens = [x \in Lenses |-> "out"]
    /\ InitSession

NextInfl ==
    \/ \E e \in Electrodes, b \in Bimorphs, k \in Banks : set_influence(e, b, k)
    \/ Return

SpecInfl == InitInfl /\ [][NextInfl]_vars

\* All adjacent demand differences within each 16-electrode bank are at most 500.
Within500(d) ==
    \A b \in {"hfm", "kb"}, k \in {1, 2}, j \in 0..14 :
        LET x == d[b][(k - 1) * 16 + j]
            y == d[b][(k - 1) * 16 + j + 1]
        IN  y - x <= 500 /\ x - y <= 500

\* C12 as claimed: started with all adjacent demand differences within each
\* bank at most 500, after any sequence of set_influence calls, with any
\* electrode, bimorph and bank 1 or 2, the bank that does not contain the
\* electrode included, all adjacent differences within each bank are still
\* at most 500.
C12_Claim_BanksWithin500 == Within500(psDemand)

\* The bank argument of the finished call is the bank holding the electrode.
BankMatches == cur.args[3] = (cur.args[1] \div 16) + 1

\* A set_influence call whose bank argument is the electrode's bank keeps
\* the differences within 500.
C12_MatchingBankPreserves ==
    (InfluenceDone /\ InfluenceValid /\ BankMatches /\ Within500(hw0.psDemand)) =>
        Within500(psDemand)

\* A call with the other bank has stepped electrodes it did not validate.
C12_MismatchReached ==
    /\ InfluenceDone /\ InfluenceValid /\ ~BankMatches
    /\ Within500(hw0.psDemand) /\ ~Within500(psDemand)

====
